---- MODULE Spec2Model ----
(***************************************************************************)
(* Timer engine (useEnhancedTimer) and sequence controller (ProcessCard)   *)
(* of the time-motion-study application, as a state machine.               *)
(*                                                                         *)
(* One action is one browser event run to completion: a button handler, a  *)
(* setInterval callback, a setTimeout callback, or the passing of wall     *)
(* clock time.  React's commit after the event (state updaters, then the   *)
(* effects whose dependencies changed) is part of the action.              *)
(***************************************************************************)
EXTENDS Integers, Sequences, FiniteSets, TLC

(***************************************************************************)
(* Bounds of the model.                                                    *)
(***************************************************************************)
NumProcs == 1          \* processes of the open project
MaxSubs == 2           \* subprocesses of the project, over all processes
MaxClock == 3          \* observed advances of the wall clock, at most one timer key
MaxClockMulti == 1     \* observed advances of the wall clock, several timer keys
MaxReadings == 2       \* lap and advance readings produced in one run
MaxPending == 1        \* zero-delay timeouts queued and not yet run
ClockStep == 7         \* milliseconds between two observed clock values
Epoch == 1000          \* Date.now() when the page is loaded
MaxPendingUpdates == 1 \* process updates whose zero-delay timeout has not run yet
MaxDbFailures == 1     \* process updates the database rejects in one run
SeqSubs == 3           \* steps of the process in the runs of the sequence controller alone
MaxSubIds == 3         \* subprocess ids issued in the runs that edit the subprocess list
MaxHours == 10         \* the longest elapsed time in the runs that look at the formatting
DelProcs == 2          \* processes of the project in the runs that delete processes

Procs == 1..NumProcs
SubIds == 1..MaxSubs

VARIABLES
    now,            \* Date.now()
    setupMode,      \* SetupModeProvider state, mirrored in setupModeRef.current
    timersRef,      \* timersRef.current: timerKey -> timer object
    intervalRefs,   \* intervalRefs.current: timerKey -> interval id
    intervals,      \* live setInterval loops, as <<id, timerKey>>
    process,        \* App state `processes`: per process its record
    localSeq,       \* ProcessCard state: localSequenceMode, localSequenceIndex
    pendingSaves,   \* setTimeout(0) callbacks that will call db.saveTimeReading
    pendingUpdates, \* setTimeout(0) callbacks that will call db.updateProcess
    dbProcess,      \* the processes table: per process its persisted sequence fields
    dbFailures,     \* number of writes the database rejected (history)
    cardLast,       \* SubprocessCard state lastRecordedTime, per timer key (absent: null)
    orderIndex,     \* subprocesses.order_index of every subprocess id issued so far
    saveCalls,      \* number of db.saveTimeReading calls made so far (history)
    produced,       \* number of readings laps and advance captures produced (history)
    ranMs,          \* per timer: time spent Running since it last read zero (history)
    streak,         \* the advance calls made in a row, no other operation between (history)
    last            \* the most recent operation and what it returned (history)

vars == <<now, setupMode, timersRef, intervalRefs, intervals, process, localSeq,
          pendingSaves, pendingUpdates, dbProcess, dbFailures, cardLast, orderIndex,
          saveCalls, produced, ranMs, streak, last>>

persist == <<pendingUpdates, dbProcess, dbFailures>>

(***************************************************************************)
(* Values.                                                                 *)
(***************************************************************************)
Null == 0              \* JS null / undefined where a number is expected
NoTime == ""           \* JS null where a formatted time string is expected

TimerKey(p, s) == <<p, s>>     \* `${processId}-${subprocessId}`

Abs(x) == IF x < 0 THEN -x ELSE x

\* n.toString().padStart(2, '0')
Pad2(n) == IF n < 10 THEN "0" \o ToString(n) ELSE ToString(n)

formatTime_rounds(milliseconds) ==
    LET totalMs == Abs(milliseconds)
        hours == totalMs \div 3600000
        minutes == (totalMs % 3600000) \div 60000
        seconds == (totalMs % 60000) \div 1000
        centiseconds == ((totalMs % 1000) + 5) \div 10
    IN  Pad2(hours) \o ":" \o Pad2(minutes) \o ":" \o Pad2(seconds)
            \o "." \o Pad2(centiseconds)

formatTime(milliseconds) ==
    LET totalMs == Abs(milliseconds)
        hours == totalMs \div 3600000
        minutes == (totalMs % 3600000) \div 60000
        seconds == (totalMs % 60000) \div 1000
        centiseconds == (totalMs % 1000) \div 10
    IN  Pad2(hours) \o ":" \o Pad2(minutes) \o ":" \o Pad2(seconds)
            \o "." \o Pad2(centiseconds)

\* new Date(ms).toISOString(): an injective rendering of the instant
ISO(ms) == <<"iso", ms>>

(***************************************************************************)
(* The engine: timersRef.current, intervalRefs.current and the live        *)
(* interval loops, passed around as one record so that a handler can       *)
(* chain several engine calls.                                             *)
(***************************************************************************)
Engine(t, r, i) == [t |-> t, r |-> r, i |-> i]

Put(f, k, v) == (k :> v) @@ f
Del(f, k) == [x \in (DOMAIN f) \ {k} |-> f[x]]

\* setInterval returns an id that no live loop uses.  Ids are only ever compared
\* for identity, so a loop is named by its key and the least number free for it.
FreshId(eng, key) ==
    LET used == {x[1] : x \in {y \in eng.i : y[2] = key}}
                    \cup (IF key \in DOMAIN eng.r THEN {eng.r[key]} ELSE {})
    IN  CHOOSE n \in 1..(Cardinality(used) + 1) : n \notin used

\* clearInterval(intervalRefs.current[key]); delete intervalRefs.current[key]
ClearRegistered_all(eng, key) == [eng EXCEPT !.i = {}, !.r = <<>>]

ClearRegistered(eng, key) ==
    IF key \in DOMAIN eng.r
    THEN [eng EXCEPT !.i = eng.i \ {<<eng.r[key], key>>},
                     !.r = Del(eng.r, key)]
    ELSE eng

\* setInterval(..., 50); intervalRefs.current[key] = intervalId
StartInterval(eng, key) ==
    LET id == FreshId(eng, key)
    IN  [eng EXCEPT !.i = eng.i \cup {<<id, key>>}, !.r = Put(eng.r, key, id)]

isTimerRunning(eng, key) == key \in DOMAIN eng.t /\ eng.t[key].running

\* the timer object startTimer stores when it resumes a paused timer
resumedTimer_keepsStart(existingTimer, t) ==
    [existingTimer EXCEPT !.running = TRUE, !.pausedAt = Null]

resumedTimer(existingTimer, t) ==
    LET pausedDuration == existingTimer.pausedAt - existingTimer.startTime
        newStartTime == t - pausedDuration
    IN  [existingTimer EXCEPT !.running = TRUE,
                              !.startTime = newStartTime,
                              !.pausedAt = Null]

\* the timer object startTimer stores for a key that has none
newTimer_keepsEpoch(t) ==
    [running |-> TRUE, startTime |-> Null, elapsedTime |-> 0, laps |-> <<>>,
     lastRecordedTime |-> NoTime, pausedAt |-> Null]

newTimer(t) ==
    [running |-> TRUE, startTime |-> t, elapsedTime |-> 0, laps |-> <<>>,
     lastRecordedTime |-> NoTime, pausedAt |-> Null]

\* existingTimer?.running
alreadyRunning_unchecked(eng, key) == FALSE

alreadyRunning(eng, key) == key \in DOMAIN eng.t /\ eng.t[key].running

\* setupModeRef.current, read when startTimer is entered
inSetupMode_unchecked(suspended) == FALSE

inSetupMode(suspended) == suspended

startTimer(eng, suspended, t, key) ==
    IF inSetupMode(suspended) THEN [eng |-> eng, ret |-> FALSE]
    ELSE IF key \in DOMAIN eng.t /\ ~eng.t[key].running /\ eng.t[key].pausedAt # Null
    THEN [eng |-> StartInterval([eng EXCEPT !.t = Put(eng.t, key, resumedTimer(eng.t[key], t))],
                                key),
          ret |-> TRUE]
    ELSE IF alreadyRunning(eng, key)
    THEN [eng |-> eng, ret |-> FALSE]
    ELSE [eng |-> StartInterval([eng EXCEPT !.t = Put(eng.t, key, newTimer(t))], key),
          ret |-> TRUE]

\* the timer object pauseTimer stores
pausedTimer_staleSnapshot(timer, t) ==
    [timer EXCEPT !.running = FALSE, !.pausedAt = t]

pausedTimer(timer, t) ==
    LET pauseTime == t
        finalElapsed == pauseTime - timer.startTime
    IN  [timer EXCEPT !.running = FALSE,
                      !.elapsedTime = finalElapsed,
                      !.pausedAt = pauseTime]

\* the reading pauseTimer returns
timeData_recorded(timer, t) ==
    [timeMilliseconds |-> t - timer.startTime,
     startTime |-> ISO(timer.startTime),
     endTime |-> ISO(t),
     formattedTime |-> formatTime(t - timer.startTime),
     lapNumber |-> Null,
     shouldRecord |-> TRUE]

timeData(timer, t) ==
    LET pauseTime == t
        finalElapsed == pauseTime - timer.startTime
    IN  [timeMilliseconds |-> finalElapsed,
         startTime |-> ISO(timer.startTime),
         endTime |-> ISO(pauseTime),
         formattedTime |-> formatTime(finalElapsed),
         lapNumber |-> Null,
         shouldRecord |-> FALSE]

pauseTimer(eng, t, key) ==
    IF ~(key \in DOMAIN eng.t /\ eng.t[key].running)
    THEN [eng |-> eng, ret |-> <<>>]
    ELSE LET timer == eng.t[key]
             cleared == ClearRegistered(eng, key)
         IN  [eng |-> [cleared EXCEPT !.t = Put(cleared.t, key, pausedTimer(timer, t))],
              ret |-> <<timeData(timer, t)>>]

stopTimer(eng, t, key) == pauseTimer(eng, t, key)

\* the reading recordLap returns and appends to laps
lapData_notRecorded(timer, t) ==
    [timeMilliseconds |-> t - timer.startTime,
     startTime |-> ISO(timer.startTime),
     endTime |-> ISO(t),
     formattedTime |-> formatTime(t - timer.startTime),
     lapNumber |-> Len(timer.laps) + 1,
     shouldRecord |-> FALSE]

lapData(timer, t) ==
    LET lapEndTime == t
        elapsedTime == lapEndTime - timer.startTime
    IN  [timeMilliseconds |-> elapsedTime,
         startTime |-> ISO(timer.startTime),
         endTime |-> ISO(lapEndTime),
         formattedTime |-> formatTime(elapsedTime),
         lapNumber |-> Len(timer.laps) + 1,
         shouldRecord |-> TRUE]

\* the timer object recordLap stores
updatedTimer_lastLapOnly(timer, t) ==
    [timer EXCEPT !.laps = <<lapData(timer, t)>>,
                  !.startTime = t,
                  !.elapsedTime = 0,
                  !.lastRecordedTime = lapData(timer, t).formattedTime,
                  !.pausedAt = Null]

updatedTimer_keepsStart(timer, t) ==
    [timer EXCEPT !.laps = Append(timer.laps, lapData(timer, t)),
                  !.lastRecordedTime = lapData(timer, t).formattedTime,
                  !.pausedAt = Null]

updatedTimer(timer, t) ==
    LET newStartTime == t
    IN  [timer EXCEPT !.laps = Append(timer.laps, lapData(timer, t)),
                      !.startTime = newStartTime,
                      !.elapsedTime = 0,
                      !.lastRecordedTime = lapData(timer, t).formattedTime,
                      !.pausedAt = Null]

recordLap_lapsPaused(eng, t, key) ==
    IF key \notin DOMAIN eng.t
    THEN [eng |-> eng, ret |-> <<>>]
    ELSE LET timer == eng.t[key]
         IN  [eng |-> [eng EXCEPT !.t = Put(eng.t, key, updatedTimer(timer, t))],
              ret |-> <<lapData(timer, t)>>]

recordLap(eng, t, key) ==
    IF ~(key \in DOMAIN eng.t /\ eng.t[key].running)
    THEN [eng |-> eng, ret |-> <<>>]
    ELSE LET timer == eng.t[key]
         IN  [eng |-> [eng EXCEPT !.t = Put(eng.t, key, updatedTimer(timer, t))],
              ret |-> <<lapData(timer, t)>>]

resetTimer_keepsLoop(eng, key) == [eng EXCEPT !.t = Del(eng.t, key)]

resetTimer(eng, key) ==
    LET cleared == ClearRegistered(eng, key)
    IN  [cleared EXCEPT !.t = Del(cleared.t, key)]

cleanupAllTimers_keepsTimers(eng) ==
    [eng EXCEPT !.i = eng.i \ {<<eng.r[k], k>> : k \in DOMAIN eng.r},
                !.r = <<>>]

cleanupAllTimers(eng) ==
    [eng EXCEPT !.i = eng.i \ {<<eng.r[k], k>> : k \in DOMAIN eng.r},
                !.r = <<>>,
                !.t = <<>>]


(***************************************************************************)
(* Queries of the hook, on the engine.                                     *)
(***************************************************************************)
isTimerPaused(eng, key) ==
    /\ key \in DOMAIN eng.t
    /\ ~eng.t[key].running
    /\ eng.t[key].pausedAt # Null
    /\ eng.t[key].elapsedTime > 0

getTimerDisplay_shortZero(eng, t, key) ==
    IF key \notin DOMAIN eng.t THEN "00:00:00"
    ELSE IF eng.t[key].running /\ eng.t[key].startTime # Null
         THEN formatTime(t - eng.t[key].startTime)
         ELSE formatTime(eng.t[key].elapsedTime)

getTimerDisplay_fromSnapshot(eng, t, key) ==
    IF key \notin DOMAIN eng.t THEN "00:00:00.00" ELSE formatTime(eng.t[key].elapsedTime)

getTimerDisplay(eng, t, key) ==
    IF key \notin DOMAIN eng.t THEN "00:00:00.00"
    ELSE IF eng.t[key].running /\ eng.t[key].startTime # Null
         THEN formatTime(t - eng.t[key].startTime)
         ELSE formatTime(eng.t[key].elapsedTime)

getLastRecordedTime(eng, key) ==
    IF key \in DOMAIN eng.t THEN eng.t[key].lastRecordedTime ELSE NoTime

(***************************************************************************)
(* SubprocessCard: the "Last:" line.                                       *)
(***************************************************************************)
\* the effect that copies the hook's lastRecordedTime into the card when it is set
SyncCard(card, eng) ==
    LET set == {k \in DOMAIN eng.t : getLastRecordedTime(eng, k) # NoTime}
    IN  [k \in (DOMAIN card) \cup set |->
            IF k \in set THEN getLastRecordedTime(eng, k) ELSE card[k]]

\* what the card shows as last recorded time (NoTime: nothing)
CardLastTime(card, key) == IF key \in DOMAIN card THEN card[key] ELSE NoTime


(***************************************************************************)
(* ProcessCard: the sequence controller.                                   *)
(***************************************************************************)
\* the effect that syncs local sequence state with the process record
SyncedLocal_keepsIndex(proc) ==
    [mode |-> proc.sequence_mode,
     index |-> IF proc.sequence_mode THEN proc.current_sequence_index ELSE -1]

SyncedLocal(proc) ==
    LET N == Len(proc.subprocesses)
        idx == proc.current_sequence_index
        validIndex ==
            IF proc.sequence_mode /\ N > 0
            THEN (IF idx < 0 \/ idx >= N THEN 0 ELSE idx)
            ELSE IF ~proc.sequence_mode THEN -1 ELSE idx
    IN  [mode |-> proc.sequence_mode, index |-> validIndex]

\* React's commit: the effect runs only when one of its dependencies changed
Commit(procOld, procNew, local) ==
    IF \/ procOld.sequence_mode # procNew.sequence_mode
       \/ procOld.current_sequence_index # procNew.current_sequence_index
       \/ Len(procOld.subprocesses) # Len(procNew.subprocesses)
    THEN SyncedLocal(procNew)
    ELSE local

\* process.subprocesses.forEach: stop every running timer but the one at skipIndex
StopRunning_none(eng, t, p, subs, skipIndex, i) == eng

RECURSIVE StopRunning(_, _, _, _, _, _)
StopRunning(eng, t, p, subs, skipIndex, i) ==
    IF i > Len(subs) THEN eng
    ELSE LET key == TimerKey(p, subs[i])
             e2 == IF (i - 1) # skipIndex /\ isTimerRunning(eng, key)
                   THEN stopTimer(eng, t, key).eng
                   ELSE eng
         IN  StopRunning(e2, t, p, subs, skipIndex, i + 1)

\* db.getProcessesByProject: the rows of the processes table with their subprocesses
\* the rows `ids` sorted by order_index, then by created_at (ids are issued in
\* the order of creation)
RECURSIVE sortSubprocesses(_, _)
sortSubprocesses(ids, ord) ==
    IF ids = {} THEN <<>>
    ELSE LET first == CHOOSE a \in ids :
                         \A b \in ids : ord[a] < ord[b] \/ (ord[a] = ord[b] /\ a <= b)
         IN  <<first>> \o sortSubprocesses(ids \ {first}, ord)

getProcessesByProject(db, procs, ord) ==
    [q \in DOMAIN procs |->
        [sequence_mode |-> db[q].sequence_mode,
         current_sequence_index |-> db[q].current_sequence_index,
         subprocesses |-> sortSubprocesses({procs[q].subprocesses[i] :
                                               i \in DOMAIN procs[q].subprocesses}, ord)]]

\* App.loadProcessesForProject: the list is emptied, which unmounts every card,
\* then set to the rows read; the cards mount anew with fresh local state. The
\* timer hook belongs to App and is not touched.
loadProcessesForProject_dropsTimers(db, procs, ord, eng) ==
    LET data == getProcessesByProject(db, procs, ord)
    IN  [process |-> data,
         local |-> [q \in DOMAIN data |-> SyncedLocal(data[q])],
         card |-> <<>>,
         eng |-> Engine(<<>>, <<>>, {})]

loadProcessesForProject(db, procs, ord, eng) ==
    LET data == getProcessesByProject(db, procs, ord)
    IN  [process |-> data,
         local |-> [q \in DOMAIN data |-> SyncedLocal(data[q])],
         card |-> SyncCard(<<>>, eng),
         eng |-> eng]

\* App.updateProcess: optimistic update of the `processes` state, { ...p, ...updates }
updateProcess(proc, updates) ==
    [f \in DOMAIN proc |-> IF f \in DOMAIN updates THEN updates[f] ELSE proc[f]]

\* the updates toggleSequenceMode hands to onUpdateProcess
sequenceUpdates_neverZero(newSequenceMode, N) ==
    [sequence_mode |-> newSequenceMode, current_sequence_index |-> -1]

sequenceUpdates_alwaysZero(newSequenceMode, N) ==
    [sequence_mode |-> newSequenceMode,
     current_sequence_index |-> IF newSequenceMode THEN 0 ELSE -1]

sequenceUpdates_keepsMode(newSequenceMode, N) ==
    [sequence_mode |-> TRUE,
     current_sequence_index |-> IF newSequenceMode /\ N > 0 THEN 0 ELSE -1]

sequenceUpdates(newSequenceMode, N) ==
    [sequence_mode |-> newSequenceMode,
     current_sequence_index |-> IF newSequenceMode /\ N > 0 THEN 0 ELSE -1]

toggleSequenceMode(eng, t, proc, local, p) ==
    LET newSequenceMode == ~local.mode
        N == Len(proc.subprocesses)
        stopped == StopRunning(eng, t, p, proc.subprocesses, -1, 1)
        newLocal == [mode |-> newSequenceMode,
                     index |-> IF newSequenceMode /\ N > 0 THEN 0 ELSE -1]
        newProc == updateProcess(proc, sequenceUpdates(newSequenceMode, N))
    IN  [eng |-> stopped, proc |-> newProc, local |-> Commit(proc, newProc, newLocal),
         update |-> <<sequenceUpdates(newSequenceMode, N)>>]

\* let nextIndex = currentIndex + 1; if (nextIndex >= length) nextIndex = 0
NextIndex_offByOne(currentIndex, N) == IF currentIndex + 1 > N THEN 0 ELSE currentIndex + 1

NextIndex_noWrap(currentIndex, N) == IF currentIndex + 1 >= N THEN currentIndex ELSE currentIndex + 1

NextIndex(currentIndex, N) == IF currentIndex + 1 >= N THEN 0 ELSE currentIndex + 1

\* if (!sequenceMode || !process.subprocesses?.length) return
sequenceReady_ignoresMode(local, N) == N > 0

sequenceReady(local, N) == local.mode /\ N > 0

\* the updates handed to onUpdateProcess after startTimer returned success
indexUpdate_revertsOnFailure(success, currentIndex, nextIndex) ==
    [current_sequence_index |-> IF success THEN nextIndex ELSE currentIndex]

indexUpdate(success, currentIndex, nextIndex) == [current_sequence_index |-> nextIndex]

\* the result of moveToNextSubprocess: engine, process record, local state, what
\* stopTimer returned for the current step, the reading handed to setTimeout for
\* saving, and a report (the index used, the next index, the state of the next
\* step's timer when startTimer is called, startTimer's result)
moveToNextSubprocess(eng, suspended, t, proc, local, p) ==
    LET subs == proc.subprocesses
        N == Len(subs)
    IN  IF ~sequenceReady(local, N)
        THEN [eng |-> eng, proc |-> proc, local |-> local, captured |-> <<>>, save |-> <<>>,
              update |-> <<>>, ok |-> FALSE, idx |-> -1, next |-> -1, nextWas |-> "absent",
              started |-> FALSE]
        ELSE
        LET currentIndex == IF local.index < 0 \/ local.index >= N THEN 0 ELSE local.index
            healed == [local EXCEPT !.index = currentIndex]
            currentKey == TimerKey(p, subs[currentIndex + 1])
            isCurrentTimerRunning == isTimerRunning(eng, currentKey)
            stop == IF isCurrentTimerRunning
                    THEN stopTimer(eng, t, currentKey)
                    ELSE [eng |-> eng, ret |-> <<>>]
            save == IF stop.ret # <<>>
                    THEN <<[key |-> currentKey,
                            data |-> [stop.ret[1] EXCEPT !.shouldRecord = TRUE]]>>
                    ELSE <<>>
            nextIndex == NextIndex(currentIndex, N)
        IN  IF nextIndex + 1 \notin DOMAIN subs
            THEN \* no next subprocess found: return after the capture
                 [eng |-> stop.eng, proc |-> proc, local |-> healed,
                  captured |-> stop.ret, save |-> save, update |-> <<>>,
                  ok |-> FALSE, idx |-> currentIndex, next |-> -1, nextWas |-> "absent",
                  started |-> FALSE]
            ELSE
            LET nextKey == TimerKey(p, subs[nextIndex + 1])
                others == StopRunning(stop.eng, t, p, subs, nextIndex, 1)
                start == startTimer(others, suspended, t, nextKey)
                written == indexUpdate(start.ret, currentIndex, nextIndex)
                newProc == updateProcess(proc, written)
                newLocal == [local EXCEPT !.index = nextIndex]
            IN  [eng |-> start.eng, proc |-> newProc,
                 local |-> Commit(proc, newProc, newLocal),
                 captured |-> stop.ret, save |-> save, update |-> <<written>>,
                 ok |-> TRUE, idx |-> currentIndex, next |-> nextIndex,
                 nextWas |-> IF nextKey \notin DOMAIN others.t THEN "absent"
                             ELSE IF others.t[nextKey].running THEN "running"
                             ELSE "paused",
                 started |-> start.ret]

(***************************************************************************)
(* The state machine.                                                      *)
(***************************************************************************)
Eng == Engine(timersRef, intervalRefs, intervals)

TimerState(eng, key) ==
    IF key \notin DOMAIN eng.t THEN "absent"
    ELSE IF eng.t[key].running THEN "running" ELSE "paused"

KeysOf(p) == {TimerKey(p, process[p].subprocesses[i]) : i \in DOMAIN process[p].subprocesses}

Keys == UNION {KeysOf(p) : p \in DOMAIN process}

Report(op, p, key, before, ok, ret) ==
    [op |-> op, p |-> p, key |-> key, before |-> before, ok |-> ok, ret |-> ret,
     idx |-> -1, next |-> -1, started |-> FALSE]

RECURSIVE SumTo(_, _)
SumTo(c, n) == IF n = 0 THEN 0 ELSE c[n] + SumTo(c, n - 1)

\* the ways the project's subprocesses are spread over its processes
Layouts == {c \in [Procs -> 0..MaxSubs] : SumTo(c, NumProcs) <= MaxSubs}

SubsOf(c, p) == [i \in 1..c[p] |-> SumTo(c, p - 1) + i]

\* the page after the project `procs` is loaded
Loaded(procs) ==
    /\ now = Epoch
    /\ setupMode = FALSE
    /\ timersRef = <<>>
    /\ intervalRefs = <<>>
    /\ intervals = {}
    /\ process = procs
    /\ localSeq = [p \in DOMAIN procs |-> [mode |-> FALSE, index |-> -1]]
    /\ pendingSaves = <<>>
    /\ pendingUpdates = <<>>
    /\ dbProcess = [p \in DOMAIN procs |-> [sequence_mode |-> FALSE,
                                         current_sequence_index |-> 0]]
    /\ dbFailures = 0
    /\ cardLast = <<>>
    /\ orderIndex = [id \in UNION {{procs[p].subprocesses[i] : i \in DOMAIN procs[p].subprocesses}
                                   : p \in DOMAIN procs} |->
                        CHOOSE n \in 0..(id - 1) :
                           \E p \in DOMAIN procs : n + 1 \in DOMAIN procs[p].subprocesses
                                                    /\ procs[p].subprocesses[n + 1] = id]
    /\ saveCalls = 0
    /\ produced = 0
    /\ ranMs = <<>>
    /\ streak = <<>>
    /\ last = Report("load", 0, <<0, 0>>, "absent", TRUE, <<>>)

Init ==
    \E c \in Layouts :
        Loaded([p \in Procs |-> [sequence_mode |-> FALSE,
                                 current_sequence_index |-> 0,
                                 subprocesses |-> SubsOf(c, p)]])

\* a project whose first process has SeqSubs steps
SeqInit ==
    Loaded([p \in Procs |-> [sequence_mode |-> FALSE,
                             current_sequence_index |-> 0,
                             subprocesses |-> IF p = 1 THEN [i \in 1..SeqSubs |-> i]
                                              ELSE <<>>]])

\* the history variable ranMs after an engine call: a timer that was created or
\* lapped reads zero again, a timer that was removed has no history
RanAfter(t) ==
    [k \in DOMAIN t |->
        IF k \notin DOMAIN timersRef THEN 0
        ELSE IF Len(t[k].laps) # Len(timersRef[k].laps) THEN 0
        ELSE ranMs[k]]

SetEngine(eng) ==
    /\ timersRef' = eng.t
    /\ intervalRefs' = eng.r
    /\ intervals' = eng.i
    /\ ranMs' = RanAfter(eng.t)

\* the bounds on the readings of one run
CanRecord(n) ==
    /\ produced + n <= MaxReadings
    /\ Len(pendingSaves) + n <= MaxPending

\* a click is handled after the zero-delay timeouts queued by the one before have run
TimeoutsRun == pendingSaves = <<>> /\ pendingUpdates = <<>>

\* the bound on the process updates queued at one time
CanUpdate(n) == Len(pendingUpdates) + n <= MaxPendingUpdates

Horizon == Epoch + ClockStep * (IF Cardinality(Keys) <= 1 THEN MaxClock ELSE MaxClockMulti)

\* Date.now() is seen to move on by ClockStep; the zero-delay timeouts queued
\* before have run by then
AdvanceClock ==
    /\ now < Horizon
    /\ TimeoutsRun
    /\ now' = now + ClockStep
    /\ ranMs' = [k \in DOMAIN ranMs |->
                    IF timersRef[k].running THEN ranMs[k] + ClockStep ELSE ranMs[k]]
    /\ last' = Report("clock", 0, <<0, 0>>, "absent", TRUE, <<>>)
    /\ UNCHANGED <<setupMode, timersRef, intervalRefs, intervals, process, localSeq,
                   pendingSaves, saveCalls, produced, streak>>
    /\ UNCHANGED persist
    /\ UNCHANGED <<cardLast, orderIndex>>

\* the timer object the setInterval callback stores
tickedTimer_sumsTicks(currentTimer, t) ==
    [currentTimer EXCEPT !.elapsedTime = currentTimer.elapsedTime + ClockStep]

tickedTimer(currentTimer, t) ==
    LET elapsed == t - currentTimer.startTime
    IN  [currentTimer EXCEPT !.elapsedTime = elapsed]

\* the setInterval callback of one live loop
IntervalTick(id, key) ==
    /\ <<id, key>> \in intervals
    /\ IF ~isTimerRunning(Eng, key)
       THEN /\ intervals' = intervals \ {<<id, key>>}
            /\ UNCHANGED timersRef
       ELSE /\ timersRef' = [timersRef EXCEPT ![key] = tickedTimer(timersRef[key], now)]
            /\ UNCHANGED intervals
    /\ last' = Report("tick", key[1], key, TimerState(Eng, key), TRUE, <<>>)
    /\ UNCHANGED <<now, setupMode, intervalRefs, process, localSeq,
                   pendingSaves, saveCalls, produced, ranMs, streak>>
    /\ UNCHANGED persist
    /\ UNCHANGED <<cardLast, orderIndex>>

handleStart_movesIndex(p, s) ==
    LET key == TimerKey(p, s)
        r == startTimer(Eng, setupMode, now, key)
    IN  /\ key \in KeysOf(p)
        /\ TimeoutsRun
        /\ SetEngine(r.eng)
        /\ localSeq' = [localSeq EXCEPT ![p].index =
                           (CHOOSE i \in DOMAIN process[p].subprocesses :
                               process[p].subprocesses[i] = s) - 1]
        /\ last' = Report("start", p, key, TimerState(Eng, key), r.ret, <<>>)
        /\ streak' = <<>>
        /\ UNCHANGED <<now, setupMode, process, pendingSaves, saveCalls, produced>>
        /\ UNCHANGED persist
        /\ UNCHANGED <<cardLast, orderIndex>>

handleStart(p, s) ==
    LET key == TimerKey(p, s)
        r == startTimer(Eng, setupMode, now, key)
    IN  /\ key \in KeysOf(p)
        /\ TimeoutsRun
        /\ SetEngine(r.eng)
        /\ last' = Report("start", p, key, TimerState(Eng, key), r.ret, <<>>)
        /\ streak' = <<>>
        /\ UNCHANGED <<now, setupMode, process, localSeq, pendingSaves, saveCalls, produced>>
        /\ UNCHANGED persist
        /\ UNCHANGED <<cardLast, orderIndex>>

handleStop(p, s) ==
    LET key == TimerKey(p, s)
        r == pauseTimer(Eng, now, key)
    IN  /\ key \in KeysOf(p)
        /\ TimeoutsRun
        /\ SetEngine(r.eng)
        /\ last' = Report("pause", p, key, TimerState(Eng, key), r.ret # <<>>, r.ret)
        /\ streak' = <<>>
        /\ UNCHANGED <<now, setupMode, process, localSeq, pendingSaves, saveCalls, produced>>
        /\ UNCHANGED persist
        /\ UNCHANGED <<cardLast, orderIndex>>

handleLap(p, s) ==
    LET key == TimerKey(p, s)
        r == recordLap(Eng, now, key)
        save == IF r.ret # <<>> /\ r.ret[1].shouldRecord
                THEN <<[key |-> key, data |-> r.ret[1]]>>
                ELSE <<>>
    IN  /\ key \in KeysOf(p)
        /\ TimeoutsRun
        /\ CanRecord(Len(r.ret))
        /\ SetEngine(r.eng)
        /\ pendingSaves' = pendingSaves \o save
        /\ produced' = produced + Len(r.ret)
        /\ cardLast' = SyncCard(IF save # <<>>
                                THEN Put(cardLast, key, save[1].data.formattedTime)
                                ELSE cardLast, r.eng)
        /\ last' = Report("lap", p, key, TimerState(Eng, key), r.ret # <<>>, r.ret)
        /\ streak' = <<>>
        /\ UNCHANGED <<now, setupMode, process, localSeq, saveCalls, orderIndex>>
        /\ UNCHANGED persist

handleReset(p, s) ==
    LET key == TimerKey(p, s)
    IN  /\ key \in KeysOf(p)
        /\ TimeoutsRun
        /\ SetEngine(resetTimer(Eng, key))
        /\ cardLast' = SyncCard(Del(cardLast, key), resetTimer(Eng, key))
        /\ last' = Report("reset", p, key, TimerState(Eng, key), TRUE, <<>>)
        /\ streak' = <<>>
        /\ UNCHANGED <<now, setupMode, process, localSeq, pendingSaves, saveCalls, produced,
                       orderIndex>>
        /\ UNCHANGED persist

ToggleSequenceMode(p) ==
    LET r == toggleSequenceMode(Eng, now, process[p], localSeq[p], p)
    IN  /\ SetEngine(r.eng)
        /\ process' = [process EXCEPT ![p] = r.proc]
        /\ localSeq' = [localSeq EXCEPT ![p] = r.local]
        /\ TimeoutsRun
        /\ CanUpdate(Len(r.update))
        /\ pendingUpdates' = pendingUpdates \o [i \in 1..Len(r.update) |->
                                                   [p |-> p, updates |-> r.update[i]]]
        /\ last' = Report(IF localSeq[p].mode THEN "disable" ELSE "enable",
                          p, <<p, 0>>, "absent", TRUE, <<>>)
        /\ streak' = <<>>
        /\ UNCHANGED <<now, setupMode, pendingSaves, saveCalls, produced, dbProcess, dbFailures>>
        /\ UNCHANGED <<cardLast, orderIndex>>

MoveToNextSubprocess(p) ==
    LET r == moveToNextSubprocess(Eng, setupMode, now, process[p], localSeq[p], p)
        key == IF r.idx >= 0 THEN TimerKey(p, process[p].subprocesses[r.idx + 1]) ELSE <<p, 0>>
        entry == [p |-> p, idx |-> r.idx, next |-> r.next, nextWas |-> r.nextWas,
                  started |-> r.started, at |-> now,
                  readings |-> Len(r.captured)]
        N == Len(process[p].subprocesses)
    IN  /\ CanRecord(Len(r.captured))
        /\ TimeoutsRun
        /\ CanUpdate(Len(r.update))
        /\ pendingUpdates' = pendingUpdates \o [i \in 1..Len(r.update) |->
                                                   [p |-> p, updates |-> r.update[i]]]
        /\ SetEngine(r.eng)
        /\ process' = [process EXCEPT ![p] = r.proc]
        /\ localSeq' = [localSeq EXCEPT ![p] = r.local]
        /\ pendingSaves' = pendingSaves \o r.save
        /\ produced' = produced + Len(r.captured)
        /\ cardLast' = SyncCard(IF r.captured # <<>>
                                THEN Put(cardLast, key, r.captured[1].formattedTime)
                                ELSE cardLast, r.eng)
        /\ streak' = IF ~r.ok THEN <<>>
                      ELSE IF streak # <<>> /\ streak[1].p # p THEN <<entry>>
                      ELSE IF Len(streak) >= N THEN Append(Tail(streak), entry)
                      ELSE Append(streak, entry)
        /\ last' = [Report("advance", p, key, TimerState(Eng, key), r.ok,
                           [i \in 1..Len(r.save) |-> r.save[i].data])
                       EXCEPT !.idx = r.idx, !.next = r.next, !.started = r.started]
        /\ UNCHANGED <<now, setupMode, saveCalls, dbProcess, dbFailures, orderIndex>>

\* the setTimeout(0) callback queued by a lap or an advance capture
SaveTimeReading ==
    /\ pendingSaves # <<>>
    /\ saveCalls' = saveCalls + 1
    /\ pendingSaves' = Tail(pendingSaves)
    /\ \E dbOk \in BOOLEAN :
          last' = Report("save", Head(pendingSaves).key[1], Head(pendingSaves).key,
                         "absent", dbOk, <<Head(pendingSaves).data>>)
    /\ UNCHANGED <<now, setupMode, timersRef, intervalRefs, intervals, process, localSeq,
                   produced, ranMs, streak>>
    /\ UNCHANGED persist
    /\ UNCHANGED <<cardLast, orderIndex>>

\* the setTimeout(0) callback queued by App.updateProcess: db.updateProcess writes
\* the row; when the database rejects the write the processes are loaded again,
\* which mounts the cards anew with the persisted sequence fields
UpdateProcessDb ==
    /\ pendingUpdates # <<>>
    /\ "updates" \in DOMAIN Head(pendingUpdates)
    /\ pendingUpdates' = Tail(pendingUpdates)
    /\ LET p == Head(pendingUpdates).p
           updates == Head(pendingUpdates).updates
       IN  \E dbOk \in BOOLEAN :
             /\ IF dbOk
                THEN /\ dbProcess' = [dbProcess EXCEPT ![p] = updateProcess(dbProcess[p], updates)]
                     /\ UNCHANGED <<process, localSeq, dbFailures, streak, cardLast>>
                     /\ UNCHANGED <<timersRef, intervalRefs, intervals, ranMs>>
                ELSE LET r == loadProcessesForProject(dbProcess, process, orderIndex, Eng)
                     IN  /\ dbFailures < MaxDbFailures
                         /\ dbFailures' = dbFailures + 1
                         /\ process' = r.process
                         /\ localSeq' = r.local
                         /\ cardLast' = r.card
                         /\ SetEngine(r.eng)
                         /\ streak' = <<>>
                         /\ UNCHANGED dbProcess
             /\ last' = Report("update", p, <<p, 0>>, "absent", dbOk, <<updates>>)
    /\ UNCHANGED <<now, setupMode, pendingSaves, saveCalls, produced, orderIndex>>

\* App.handleSetupModeToggle -> toggleSetupMode(timerHook), and the hook's
\* effect on [setupMode] that follows the re-render
handleSetupModeToggle ==
    /\ TimeoutsRun
    /\ setupMode' = ~setupMode
    /\ IF ~setupMode
       THEN SetEngine(cleanupAllTimers(cleanupAllTimers(Eng)))
       ELSE UNCHANGED <<timersRef, intervalRefs, intervals, ranMs>>
    /\ last' = Report(IF setupMode THEN "setupOff" ELSE "setupOn", 0, <<0, 0>>,
                      "absent", TRUE, <<>>)
    /\ streak' = <<>>
    /\ UNCHANGED <<now, process, localSeq, pendingSaves, saveCalls, produced>>
    /\ UNCHANGED persist
    /\ UNCHANGED <<cardLast, orderIndex>>

\* ProcessCard.addSubprocess: db.addSubprocess inserts the row with order_index =
\* the number of rows of the process, then the processes are loaded again; an
\* error is caught and nothing changes
AddSubprocess(p) ==
    LET id == Cardinality(DOMAIN orderIndex) + 1
        count == Len(process[p].subprocesses)
    IN  /\ TimeoutsRun
        /\ id <= MaxSubIds
        /\ \E dbOk \in BOOLEAN :
              /\ IF dbOk
                 THEN LET ord == Put(orderIndex, id, count)
                          rows == [process EXCEPT ![p].subprocesses = Append(@, id)]
                          r == loadProcessesForProject(dbProcess, rows, ord, Eng)
                      IN  /\ orderIndex' = ord
                          /\ process' = r.process
                          /\ localSeq' = r.local
                          /\ cardLast' = r.card
                          /\ SetEngine(r.eng)
                          /\ UNCHANGED dbFailures
                 ELSE /\ dbFailures < MaxDbFailures
                      /\ dbFailures' = dbFailures + 1
                      /\ UNCHANGED <<orderIndex, process, localSeq, cardLast,
                                     timersRef, intervalRefs, intervals, ranMs>>
              /\ last' = Report("add", p, <<p, id>>, "absent", dbOk, <<>>)
        /\ streak' = <<>>
        /\ UNCHANGED <<now, setupMode, pendingSaves, pendingUpdates, dbProcess,
                       saveCalls, produced>>

\* ProcessCard.deleteSubprocess, confirmed: a Running timer of the subprocess is
\* reset, db.deleteSubprocess deletes the row, then the processes are loaded
\* again; an error is caught after the reset
DeleteSubprocess(p, s) ==
    LET key == TimerKey(p, s)
        eng == IF isTimerRunning(Eng, key) THEN resetTimer(Eng, key) ELSE Eng
    IN  /\ key \in KeysOf(p)
        /\ TimeoutsRun
        /\ \E dbOk \in BOOLEAN :
              /\ IF dbOk
                 THEN LET left == {process[p].subprocesses[i] :
                                     i \in DOMAIN process[p].subprocesses} \ {s}
                          rows == [process EXCEPT ![p].subprocesses =
                                                     sortSubprocesses(left, orderIndex)]
                          r == loadProcessesForProject(dbProcess, rows, orderIndex, eng)
                      IN  /\ process' = r.process
                          /\ localSeq' = r.local
                          /\ cardLast' = r.card
                          /\ SetEngine(r.eng)
                          /\ UNCHANGED dbFailures
                 ELSE /\ dbFailures < MaxDbFailures
                      /\ dbFailures' = dbFailures + 1
                      /\ SetEngine(eng)
                      /\ cardLast' = SyncCard(cardLast, eng)
                      /\ UNCHANGED <<process, localSeq>>
              /\ last' = Report("delete", p, key, TimerState(Eng, key), dbOk, <<>>)
        /\ streak' = <<>>
        /\ UNCHANGED <<now, setupMode, pendingSaves, pendingUpdates, dbProcess,
                       saveCalls, produced, orderIndex>>

\* App.deleteProcess, confirmed: the process leaves the `processes` state, which
\* unmounts its card, every timer of the hook is cleaned up, and the row is
\* deleted in a zero-delay timeout; `rows` are the rows the database still holds
DeleteProcess(p) ==
    LET eng == cleanupAllTimers(Eng)
        kept == DOMAIN process \ {p}
    IN  /\ p \in DOMAIN process
        /\ TimeoutsRun
        /\ CanUpdate(1)
        /\ process' = [q \in kept |-> process[q]]
        /\ localSeq' = [q \in kept |-> localSeq[q]]
        /\ cardLast' = SyncCard([k \in {x \in DOMAIN cardLast : x[1] # p} |-> cardLast[k]], eng)
        /\ SetEngine(eng)
        /\ pendingUpdates' = Append(pendingUpdates, [p |-> p, rows |-> process[p]])
        /\ last' = Report("deleteProcess", p, <<p, 0>>, "absent", TRUE, <<>>)
        /\ streak' = <<>>
        /\ UNCHANGED <<now, setupMode, pendingSaves, dbProcess, dbFailures,
                       saveCalls, produced, orderIndex>>

\* the setTimeout(0) callback queued by App.deleteProcess: db.deleteProcess
\* deletes the row; when the database rejects it the processes are loaded again,
\* the process that was to be deleted among them
DeleteProcessDb ==
    /\ pendingUpdates # <<>>
    /\ "rows" \in DOMAIN Head(pendingUpdates)
    /\ pendingUpdates' = Tail(pendingUpdates)
    /\ LET p == Head(pendingUpdates).p
           rows == Put(process, p, Head(pendingUpdates).rows)
       IN  \E dbOk \in BOOLEAN :
             /\ IF dbOk
                THEN /\ dbProcess' = Del(dbProcess, p)
                     /\ UNCHANGED <<process, localSeq, dbFailures, cardLast>>
                     /\ UNCHANGED <<timersRef, intervalRefs, intervals, ranMs>>
                ELSE LET r == loadProcessesForProject(dbProcess, rows, orderIndex, Eng)
                     IN  /\ dbFailures < MaxDbFailures
                         /\ dbFailures' = dbFailures + 1
                         /\ process' = r.process
                         /\ localSeq' = r.local
                         /\ cardLast' = r.card
                         /\ SetEngine(r.eng)
                         /\ UNCHANGED dbProcess
             /\ last' = Report("deleteProcessDb", p, <<p, 0>>, "absent", dbOk, <<>>)
    /\ streak' = <<>>
    /\ UNCHANGED <<now, setupMode, pendingSaves, saveCalls, produced, orderIndex>>

Next ==
    \/ AdvanceClock
    \/ \E x \in intervals : IntervalTick(x[1], x[2])
    \/ \E p \in Procs, s \in SubIds : handleStart(p, s)
    \/ \E p \in Procs, s \in SubIds : handleStop(p, s)
    \/ \E p \in Procs, s \in SubIds : handleLap(p, s)
    \/ \E p \in Procs, s \in SubIds : handleReset(p, s)
    \/ \E p \in Procs : ToggleSequenceMode(p)
    \/ \E p \in Procs : MoveToNextSubprocess(p)
    \/ SaveTimeReading
    \/ UpdateProcessDb
    \/ handleSetupModeToggle

Spec == Init /\ [][Next]_vars

\* the sequence controller on SeqSubs steps, at one reading of the clock
SeqNext ==
    \/ \E x \in intervals : IntervalTick(x[1], x[2])
    \/ \E p \in Procs, s \in 1..SeqSubs : handleStart(p, s)
    \/ \E p \in Procs, s \in 1..SeqSubs : handleStop(p, s)
    \/ \E p \in Procs, s \in 1..SeqSubs : handleReset(p, s)
    \/ \E p \in Procs : ToggleSequenceMode(p)
    \/ \E p \in Procs : MoveToNextSubprocess(p)
    \/ SaveTimeReading
    \/ UpdateProcessDb
    \/ handleSetupModeToggle

SeqSpec == SeqInit /\ [][SeqNext]_vars

\* every project of Init under every handler and pending callback, at one
\* reading of the clock
StillNext ==
    \/ \E x \in intervals : IntervalTick(x[1], x[2])
    \/ \E p \in Procs, s \in SubIds : handleStart(p, s)
    \/ \E p \in Procs, s \in SubIds : handleStop(p, s)
    \/ \E p \in Procs, s \in SubIds : handleLap(p, s)
    \/ \E p \in Procs, s \in SubIds : handleReset(p, s)
    \/ \E p \in Procs : ToggleSequenceMode(p)
    \/ \E p \in Procs : MoveToNextSubprocess(p)
    \/ SaveTimeReading
    \/ UpdateProcessDb
    \/ handleSetupModeToggle

StillSpec == Init /\ [][StillNext]_vars

\* the elapsed times at which the clock is looked at in the runs on formatting:
\* around the carries of the centisecond, second, minute and hour fields
Instants ==
    {h * 3600000 + m * 60000 + sec * 1000 + r :
        h \in {0, MaxHours}, m \in {0, 59}, sec \in {0, 1, 59},
        r \in {0, 5, 995, 999}}

\* a project with one process of one step
FmtInit ==
    Loaded([p \in Procs |-> [sequence_mode |-> FALSE,
                             current_sequence_index |-> 0,
                             subprocesses |-> IF p = 1 THEN <<1>> ELSE <<>>]])

\* Date.now() is next seen at a later instant, while a timer is Running
ClockJump(e) ==
    /\ Epoch + e > now
    /\ TimeoutsRun
    /\ \E k \in DOMAIN timersRef : timersRef[k].running
    /\ now' = Epoch + e
    /\ ranMs' = [k \in DOMAIN ranMs |->
                    IF timersRef[k].running THEN ranMs[k] + (Epoch + e - now) ELSE ranMs[k]]
    /\ last' = Report("clock", 0, <<0, 0>>, "absent", TRUE, <<>>)
    /\ UNCHANGED <<setupMode, timersRef, intervalRefs, intervals, process, localSeq,
                   pendingSaves, saveCalls, produced, streak>>
    /\ UNCHANGED persist
    /\ UNCHANGED <<cardLast, orderIndex>>

FmtNext ==
    \/ \E e \in Instants : ClockJump(e)
    \/ handleStart(1, 1)
    \/ handleStop(1, 1)
    \/ handleReset(1, 1)

FmtSpec == FmtInit /\ [][FmtNext]_vars

\* the timer of that one step under every button of its card, the refresh
\* loops, the clock, the saves of its readings and the setup mode switch
TimerNext ==
    \/ AdvanceClock
    \/ \E x \in intervals : IntervalTick(x[1], x[2])
    \/ \E p \in Procs, s \in SubIds : handleStart(p, s)
    \/ \E p \in Procs, s \in SubIds : handleStop(p, s)
    \/ \E p \in Procs, s \in SubIds : handleLap(p, s)
    \/ \E p \in Procs, s \in SubIds : handleReset(p, s)
    \/ SaveTimeReading
    \/ handleSetupModeToggle

TimerSpec == FmtInit /\ [][TimerNext]_vars

\* a project whose first process has MaxSubs steps
EditInit ==
    Loaded([p \in Procs |-> [sequence_mode |-> FALSE,
                             current_sequence_index |-> 0,
                             subprocesses |-> IF p = 1 THEN [i \in 1..MaxSubs |-> i]
                                              ELSE <<>>]])

\* that process under the sequence controls, the Start, Pause and Reset buttons
\* and the edits of its subprocess list, the clock standing still
EditNext ==
    \/ \E x \in intervals : IntervalTick(x[1], x[2])
    \/ \E p \in Procs, s \in 1..MaxSubIds : handleStart(p, s)
    \/ \E p \in Procs, s \in 1..MaxSubIds : handleStop(p, s)
    \/ \E p \in Procs, s \in 1..MaxSubIds : handleReset(p, s)
    \/ \E p \in Procs : ToggleSequenceMode(p)
    \/ \E p \in Procs : MoveToNextSubprocess(p)
    \/ \E p \in Procs : AddSubprocess(p)
    \/ \E p \in Procs, s \in 1..MaxSubIds : DeleteSubprocess(p, s)
    \/ SaveTimeReading
    \/ UpdateProcessDb

EditSpec == EditInit /\ [][EditNext]_vars

\* a project of DelProcs processes with one subprocess each
DelInit ==
    Loaded([p \in 1..DelProcs |-> [sequence_mode |-> FALSE,
                                   current_sequence_index |-> 0,
                                   subprocesses |-> <<p>>]])

DelNext ==
    \/ AdvanceClock
    \/ \E x \in intervals : IntervalTick(x[1], x[2])
    \/ \E p \in DOMAIN process, s \in 1..DelProcs : handleStart(p, s)
    \/ \E p \in DOMAIN process, s \in 1..DelProcs : handleStop(p, s)
    \/ \E p \in DOMAIN process, s \in 1..DelProcs : handleReset(p, s)
    \/ \E p \in 1..DelProcs : DeleteProcess(p)
    \/ DeleteProcessDb

DelSpec == DelInit /\ [][DelNext]_vars

TypeOK ==
    /\ now \in Epoch..Horizon
    /\ DOMAIN ranMs = DOMAIN timersRef
    /\ setupMode \in BOOLEAN
    /\ DOMAIN timersRef \subseteq Keys
    /\ DOMAIN intervalRefs \subseteq Keys
    /\ \A p \in Procs : localSeq[p].index \in -1..MaxSubs


(***************************************************************************)
(* Shorthands of the properties.                                           *)
(***************************************************************************)
SeqLen(p) == Len(process[p].subprocesses)

KeyAt(p, i) == TimerKey(p, process[p].subprocesses[i + 1])

LoopsOf(key) == {x \in intervals : x[2] = key}

\* advance(p) went through: sequence mode was enabled and there was a step
Advanced == last.op = "advance" /\ last.ok

(***************************************************************************)
(* C1  Sequence capture.  After an advance on a process of N >= 2 steps    *)
(* whose current step i had a Running timer: exactly one reading, marked   *)
(* shouldRecord, was produced for step i and queued for saving; the timer  *)
(* of step i is not Running; the timer of step (i+1) mod N is Running;     *)
(* and currentIndex is (i+1) mod N.                                        *)
(***************************************************************************)
C1_SequenceCapture ==
    (last.op = "advance" /\ last.idx >= 0 /\ last.before = "running"
        /\ SeqLen(last.p) >= 2)
    => LET p == last.p
           i == last.idx
           j == (i + 1) % SeqLen(p)
       IN  /\ last.ok
           /\ Len(last.ret) = 1
           /\ last.ret[1].shouldRecord
           /\ pendingSaves # <<>>
           /\ pendingSaves[Len(pendingSaves)] = [key |-> KeyAt(p, i), data |-> last.ret[1]]
           /\ ~isTimerRunning(Eng, KeyAt(p, i))
           /\ isTimerRunning(Eng, KeyAt(p, j))
           /\ localSeq[p].index = j

C1_Witness ==
    /\ Advanced
    /\ last.before = "running"
    /\ SeqLen(last.p) >= 2
    /\ Len(last.ret) = 1
    /\ last.ret[1].timeMilliseconds > 0


(***************************************************************************)
(* C2  Sequence skip.  Original statement: after an advance whose current  *)
(* step i had no Running timer, no reading was produced, the timer of step *)
(* (i+1) mod N is Running and currentIndex is (i+1) mod N.                 *)
(***************************************************************************)
C2_SkipStartsNext ==
    (Advanced /\ last.before # "running")
    => LET p == last.p
           j == (last.idx + 1) % SeqLen(p)
       IN  /\ last.ret = <<>>
           /\ isTimerRunning(Eng, KeyAt(p, j))
           /\ localSeq[p].index = j

(***************************************************************************)
(* C2 as amended.  An advance whose current step i has no Running timer    *)
(* produces no reading and queues nothing for saving, and sets             *)
(* currentIndex to (i+1) mod N; the timer of step (i+1) mod N is Running   *)
(* afterwards unless setup mode is engaged, in which case startTimer       *)
(* refuses and no timer is started.                                        *)
(***************************************************************************)
C2_SequenceSkip ==
    [][(last'.op = "advance" /\ last'.ok /\ last'.before # "running")
       => LET p == last'.p
              j == (last'.idx + 1) % SeqLen(p)
          IN  /\ last'.ret = <<>>
              /\ pendingSaves' = pendingSaves
              /\ saveCalls' = saveCalls
              /\ produced' = produced
              /\ localSeq'[p].index = j
              /\ IF setupMode
                 THEN ~last'.started /\ {k \in DOMAIN timersRef' : timersRef'[k].running} = {}
                 ELSE KeyAt(p, j) \in DOMAIN timersRef' /\ timersRef'[KeyAt(p, j)].running
      ]_vars

C2_Witness ==
    /\ Advanced
    /\ last.before = "paused"
    /\ last.ret = <<>>
    /\ SeqLen(last.p) >= 2
    /\ isTimerRunning(Eng, KeyAt(last.p, last.next))

C2_WitnessSetup ==
    /\ Advanced
    /\ last.before # "running"
    /\ setupMode
    /\ ~last.started


(***************************************************************************)
(* C3  Sequence wraparound.  A full round is N advance calls in a row on a *)
(* process of N steps, the first made at currentIndex = 0.                 *)
(***************************************************************************)
FullRound(p) ==
    /\ streak # <<>>
    /\ streak[1].p = p
    /\ Len(streak) = SeqLen(p)
    /\ streak[1].idx = 0

\* the m-th call of a round starts from index m-1 and moves to m mod N, and
\* the round ends at index 0
RoundIndices(p) ==
    /\ localSeq[p].index = 0
    /\ \A m \in 1..SeqLen(p) :
          /\ streak[m].idx = m - 1
          /\ streak[m].next = m % SeqLen(p)

(***************************************************************************)
(* C3, original statement: after a full round currentIndex is 0 again, the *)
(* index moved by one (mod N) at each call, and each subprocess's timer    *)
(* was started exactly once.                                               *)
(***************************************************************************)
C3_RoundStartsEachOnce ==
    \A p \in Procs :
        FullRound(p)
        => /\ RoundIndices(p)
           /\ \A i \in 0..(SeqLen(p) - 1) :
                 Cardinality({m \in 1..SeqLen(p) :
                                 streak[m].next = i /\ streak[m].started}) = 1

(***************************************************************************)
(* C3 as amended: after a full round currentIndex is 0 again, the index    *)
(* moved by one (mod N) at each call, and startTimer was called exactly    *)
(* once for each subprocess; the call started the timer unless setup mode  *)
(* was engaged or that timer was already Running.                          *)
(***************************************************************************)
C3_SequenceWraparound ==
    \A p \in Procs :
        FullRound(p)
        => /\ RoundIndices(p)
           /\ \A i \in 0..(SeqLen(p) - 1) :
                 Cardinality({m \in 1..SeqLen(p) : streak[m].next = i}) = 1
           /\ \A m \in 1..SeqLen(p) :
                 streak[m].started <=> (~setupMode /\ streak[m].nextWas # "running")

C3_Witness ==
    /\ FullRound(1)
    /\ SeqLen(1) >= 2
    /\ \A m \in 1..SeqLen(1) : streak[m].started
    /\ last.op = "advance"

C3_WitnessAlreadyRunning ==
    /\ FullRound(1)
    /\ SeqLen(1) >= 2
    /\ ~setupMode
    /\ \E m \in 1..SeqLen(1) : ~streak[m].started

(***************************************************************************)
(* C4  Exactly-once persistence.  Every reading produced by a successful   *)
(* lap or by an advance capture is handed to saveTimeReading exactly once: *)
(* the readings produced so far are the ones already handed over plus the  *)
(* ones whose zero-delay timeout is still queued, a reading just produced  *)
(* is the newest queued one, and once nothing is queued the number of      *)
(* saveTimeReading calls equals the number of laps plus captures.          *)
(***************************************************************************)
C4_ExactlyOncePersistence ==
    /\ saveCalls + Len(pendingSaves) = produced
    /\ (pendingSaves = <<>> => saveCalls = produced)
    /\ (last.op \in {"lap", "advance"} /\ last.ret # <<>>)
       => /\ pendingSaves # <<>>
          /\ pendingSaves[Len(pendingSaves)].key = last.key
          /\ pendingSaves[Len(pendingSaves)].data.timeMilliseconds = last.ret[1].timeMilliseconds
    /\ last.op \in {"start", "pause", "reset", "enable", "disable"}
       => last.ret = <<>> \/ ~last.ret[1].shouldRecord

C4_Witness ==
    /\ saveCalls = 2
    /\ produced = 2
    /\ pendingSaves = <<>>
    /\ last.op = "save"
    /\ \E k \in DOMAIN timersRef : Len(timersRef[k].laps) = 1


(***************************************************************************)
(* C5  A manual pause (the Stop button, or the stops made when sequence    *)
(* mode is enabled or disabled) returns a reading with shouldRecord =      *)
(* false and queues no save: neither the queue of saveTimeReading calls    *)
(* nor the number of calls made changes in that step.                      *)
(***************************************************************************)
C5_PauseNeverPersists ==
    [][(last'.op \in {"pause", "enable", "disable"})
       => /\ pendingSaves' = pendingSaves
          /\ saveCalls' = saveCalls
          /\ produced' = produced
          /\ (last'.op = "pause" /\ last'.before = "running")
             => /\ Len(last'.ret) = 1
                /\ ~last'.ret[1].shouldRecord
      ]_vars

C5_Witness ==
    /\ last.op = "pause"
    /\ last.before = "running"
    /\ Len(last.ret) = 1
    /\ last.ret[1].timeMilliseconds > 0
    /\ produced > 0


(***************************************************************************)
(* C6  start(k) with setup mode off and no timer for k creates a Running   *)
(* timer for k with startTime = now, elapsedTime = 0 and no laps, and      *)
(* returns true.                                                           *)
(***************************************************************************)
C6_StartCreates ==
    (last.op = "start" /\ last.before = "absent" /\ ~setupMode)
    => /\ last.ok
       /\ last.key \in DOMAIN timersRef
       /\ timersRef[last.key].running
       /\ timersRef[last.key].startTime = now
       /\ timersRef[last.key].elapsedTime = 0
       /\ timersRef[last.key].laps = <<>>

C6_Witness ==
    /\ last.op = "start"
    /\ last.before = "absent"
    /\ ~setupMode
    /\ now > Epoch
    /\ isTimerRunning(Eng, last.key)


(***************************************************************************)
(* C7  start(k) on a Running timer returns false and changes nothing: the  *)
(* timer table, the registry of loops and the live loops are the same      *)
(* afterwards, the timer of k is Running and exactly one loop refreshes k. *)
(***************************************************************************)
C7_StartRunningNoop ==
    [][(last'.op = "start" /\ last'.before = "running")
       => /\ ~last'.ok
          /\ timersRef' = timersRef
          /\ intervalRefs' = intervalRefs
          /\ intervals' = intervals
          /\ last'.key \in DOMAIN timersRef'
          /\ timersRef'[last'.key].running
          /\ Cardinality({x \in intervals' : x[2] = last'.key}) = 1
      ]_vars

C7_Witness ==
    /\ last.op = "start"
    /\ last.before = "running"
    /\ ~last.ok
    /\ isTimerRunning(Eng, last.key)
    /\ now - timersRef[last.key].startTime > 0


(***************************************************************************)
(* C8  Resume continuity.  start(k) on a Paused timer makes it Running     *)
(* with a startTime such that now - startTime is the elapsedTime frozen at *)
(* the pause, and keeps laps and lastRecordedTime.  Hence the time a timer *)
(* shows is the time it has spent Running since it last read zero: a       *)
(* timer paused at e, resumed and left for d reads e + d.                  *)
(***************************************************************************)
C8_ResumeContinuity ==
    /\ [][(last'.op = "start" /\ last'.before = "paused")
          => LET k == last'.key
             IN  /\ last'.ok
                 /\ k \in DOMAIN timersRef'
                 /\ timersRef'[k].running
                 /\ now' - timersRef'[k].startTime = timersRef[k].elapsedTime
                 /\ timersRef'[k].laps = timersRef[k].laps
                 /\ timersRef'[k].lastRecordedTime = timersRef[k].lastRecordedTime
         ]_vars
    /\ [](\A k \in DOMAIN timersRef :
             IF timersRef[k].running
             THEN now - timersRef[k].startTime = ranMs[k]
             ELSE timersRef[k].elapsedTime = ranMs[k])

\* started at Epoch, paused at e = 2 * ClockStep, resumed one ClockStep later
C8_Witness ==
    /\ last.op = "start"
    /\ last.before = "paused"
    /\ last.ok
    /\ now - Epoch = 3 * ClockStep
    /\ timersRef[last.key].running
    /\ now - timersRef[last.key].startTime = 2 * ClockStep


(***************************************************************************)
(* C9  pause(k) on a Running timer stores now - startTime as elapsedTime,  *)
(* leaves the timer in the table and not Running, cancels its loop, and    *)
(* returns a reading whose timeMilliseconds is that stored value.          *)
(***************************************************************************)
C9_PauseFreezes ==
    [][(last'.op = "pause" /\ last'.before = "running")
       => LET k == last'.key
          IN  /\ last'.ok
              /\ k \in DOMAIN timersRef'
              /\ ~timersRef'[k].running
              /\ timersRef'[k].elapsedTime = now - timersRef[k].startTime
              /\ timersRef'[k].startTime = timersRef[k].startTime
              /\ {x \in intervals' : x[2] = k} = {}
              /\ k \notin DOMAIN intervalRefs'
              /\ Len(last'.ret) = 1
              /\ last'.ret[1].timeMilliseconds = timersRef'[k].elapsedTime
      ]_vars

C9_Witness ==
    /\ last.op = "pause"
    /\ last.before = "running"
    /\ last.key \in DOMAIN timersRef
    /\ timersRef[last.key].elapsedTime = 2 * ClockStep
    /\ LoopsOf(last.key) = {}


(***************************************************************************)
(* C10  lap(k) on a Running timer appends exactly one reading, marked      *)
(* shouldRecord and of now - startTime milliseconds, to laps, and restarts *)
(* the timer in the same step: startTime = now, elapsedTime = 0, the timer *)
(* is Running before and after, and its loop and registry entry are kept.  *)
(***************************************************************************)
C10_LapRestarts ==
    [][(last'.op = "lap" /\ last'.before = "running")
       => LET k == last'.key
          IN  /\ last'.ok
              /\ Len(last'.ret) = 1
              /\ last'.ret[1].shouldRecord
              /\ last'.ret[1].timeMilliseconds = now - timersRef[k].startTime
              /\ k \in DOMAIN timersRef'
              /\ timersRef'[k].laps = Append(timersRef[k].laps, last'.ret[1])
              /\ timersRef[k].running
              /\ timersRef'[k].running
              /\ timersRef'[k].startTime = now
              /\ timersRef'[k].elapsedTime = 0
              /\ intervals' = intervals
              /\ intervalRefs' = intervalRefs
              /\ {x \in intervals' : x[2] = k} # {}
      ]_vars

C10_Witness ==
    /\ last.op = "lap"
    /\ last.before = "running"
    /\ last.key \in DOMAIN timersRef
    /\ Len(timersRef[last.key].laps) = 2
    /\ timersRef[last.key].laps[2].timeMilliseconds > 0
    /\ timersRef[last.key].startTime = now

(***************************************************************************)
(* C11  pause(k) and lap(k) on a key whose timer is absent or Paused       *)
(* return null and change nothing: the timer table (and with it the laps   *)
(* of every timer), the registry of loops and the live loops are the same  *)
(* afterwards, and nothing is queued for saving.                           *)
(***************************************************************************)
C11_NotRunningNoop ==
    [][(last'.op \in {"pause", "lap"} /\ last'.before # "running")
       => /\ ~last'.ok
          /\ last'.ret = <<>>
          /\ timersRef' = timersRef
          /\ intervalRefs' = intervalRefs
          /\ intervals' = intervals
          /\ pendingSaves' = pendingSaves
          /\ produced' = produced
      ]_vars

C11_Witness ==
    /\ last.op = "lap"
    /\ last.before = "paused"
    /\ ~last.ok
    /\ last.key \in DOMAIN timersRef
    /\ timersRef[last.key].elapsedTime > 0
    /\ Len(timersRef[last.key].laps) = 1


(***************************************************************************)
(* C12  reset(k) from any state leaves no timer, no registry entry and no  *)
(* live loop for k: display(k) is the formatting of zero, isRunning(k) and *)
(* isPaused(k) are false.  A reset of an absent key changes nothing, and   *)
(* resetting twice gives what resetting once gives.                        *)
(***************************************************************************)
C12_ResetClears ==
    /\ [](last.op = "reset"
          => /\ last.key \notin DOMAIN timersRef
             /\ last.key \notin DOMAIN intervalRefs
             /\ LoopsOf(last.key) = {}
             /\ getTimerDisplay(Eng, now, last.key) = formatTime(0)
             /\ ~isTimerRunning(Eng, last.key)
             /\ ~isTimerPaused(Eng, last.key))
    /\ [](\A k \in Keys : resetTimer(resetTimer(Eng, k), k) = resetTimer(Eng, k))
    /\ [][(last'.op = "reset" /\ last'.before = "absent")
          => /\ timersRef' = timersRef
             /\ intervalRefs' = intervalRefs
             /\ intervals' = intervals
         ]_vars

C12_Witness ==
    /\ last.op = "reset"
    /\ last.before = "running"
    /\ now > Epoch
    /\ last.key \notin DOMAIN timersRef
    /\ produced > 0


(***************************************************************************)
(* C13  While setup mode is engaged start(k) returns false for every key   *)
(* and creates or resumes no timer; with setup mode off, start(k) on an    *)
(* absent key creates a Running timer again.                               *)
(***************************************************************************)
C13_SetupModeBlocksStart ==
    [][(last'.op = "start")
       => IF setupMode
          THEN /\ ~last'.ok
               /\ timersRef' = timersRef
               /\ intervalRefs' = intervalRefs
               /\ intervals' = intervals
               /\ last'.key \notin DOMAIN timersRef'
          ELSE last'.before = "absent"
               => /\ last'.ok
                  /\ last'.key \in DOMAIN timersRef'
                  /\ timersRef'[last'.key].running
      ]_vars

C13_Witness ==
    /\ last.op = "start"
    /\ setupMode
    /\ ~last.ok
    /\ timersRef = <<>>


(***************************************************************************)
(* C14  Engaging setup mode acts as pause on each Running timer: a timer   *)
(* that was Running is in the table afterwards, not Running, with          *)
(* elapsedTime = now - startTime, and a timer that was Paused is kept as   *)
(* it was.                                                                 *)
(***************************************************************************)
C14_SetupModePausesTimers ==
    [][(last'.op = "setupOn")
       => \A k \in DOMAIN timersRef :
             /\ k \in DOMAIN timersRef'
             /\ ~timersRef'[k].running
             /\ IF timersRef[k].running
                THEN timersRef'[k].elapsedTime = now - timersRef[k].startTime
                ELSE timersRef'[k] = timersRef[k]
      ]_vars


(***************************************************************************)
(* C15  In every reachable state in which setup mode is engaged no timer   *)
(* is Running, no loop is live and none is registered.                     *)
(***************************************************************************)
C15_NoTimingInSetupMode ==
    setupMode
    => /\ \A k \in DOMAIN timersRef : ~timersRef[k].running
       /\ intervals = {}
       /\ intervalRefs = <<>>

\* setup mode is engaged and an advance has just tried to start the next timer
C15_Witness ==
    /\ setupMode
    /\ last.op = "advance"
    /\ last.ok
    /\ ~last.started
    /\ now > Epoch

(***************************************************************************)
(* Shorthands of the sequence properties.                                  *)
(***************************************************************************)
\* no timer of process p is Running
NoneRunning(t, p) == \A k \in KeysOf(p) : k \notin DOMAIN t \/ ~t[k].running

\* the step handed `upd` for process p to App.updateProcess, which applied it to
\* the in-memory record and queued the write
Requested(p, upd) ==
    /\ pendingUpdates' = Append(pendingUpdates, [p |-> p, updates |-> upd])
    /\ process'[p] = updateProcess(process[p], upd)

\* the step ran the queued write of `upd` and the database accepted it
Persisted(upd) ==
    (/\ last'.op = "update"
     /\ last'.ok
     /\ pendingUpdates # <<>>
     /\ Head(pendingUpdates).updates = upd)
    => /\ dbProcess'[last'.p].sequence_mode = upd.sequence_mode
       /\ dbProcess'[last'.p].current_sequence_index = upd.current_sequence_index

(***************************************************************************)
(* C16  enable on a process with at least one subprocess sets currentIndex *)
(* to 0 whatever it was, leaves no timer of the process Running, and hands *)
(* {sequence_mode: true, current_sequence_index: 0} to the database, which *)
(* holds these values once it has accepted the write.                      *)
(***************************************************************************)
C16_EnableResetsIndex ==
    [][/\ (last'.op = "enable" /\ SeqLen(last'.p) >= 1)
          => /\ localSeq'[last'.p] = [mode |-> TRUE, index |-> 0]
             /\ NoneRunning(timersRef', last'.p)
             /\ Requested(last'.p, [sequence_mode |-> TRUE, current_sequence_index |-> 0])
       /\ Persisted([sequence_mode |-> TRUE, current_sequence_index |-> 0])
      ]_vars

\* enabled over a persisted index of -1, with a timer that is no longer Running
C16_Witness ==
    /\ last.op = "enable"
    /\ SeqLen(last.p) = 2
    /\ dbProcess[last.p].current_sequence_index = -1
    /\ localSeq[last.p].index = 0
    /\ \E k \in KeysOf(last.p) : k \in DOMAIN timersRef /\ timersRef[k].pausedAt = now


(***************************************************************************)
(* C17  disable leaves no timer of the process Running, sets currentIndex  *)
(* to -1 and hands {sequence_mode: false, current_sequence_index: -1} to   *)
(* the database; while sequence mode is off every advance fails, and it    *)
(* stays off until an enable (or until a rejected write makes the page     *)
(* load the persisted state again).                                        *)
(***************************************************************************)
C17_DisableStopsSequence ==
    [][/\ (last'.op = "disable")
          => /\ localSeq'[last'.p] = [mode |-> FALSE, index |-> -1]
             /\ NoneRunning(timersRef', last'.p)
             /\ Requested(last'.p, [sequence_mode |-> FALSE, current_sequence_index |-> -1])
       /\ Persisted([sequence_mode |-> FALSE, current_sequence_index |-> -1])
       /\ (last'.op = "advance" /\ ~localSeq[last'.p].mode) => ~last'.ok
       /\ \A p \in Procs :
             (~localSeq[p].mode /\ localSeq'[p].mode)
             => (last'.op = "enable" \/ (last'.op = "update" /\ ~last'.ok))
      ]_vars

\* an advance refused after a disable that stopped a timer and was persisted
C17_Witness ==
    /\ last.op = "advance"
    /\ ~last.ok
    /\ SeqLen(last.p) >= 1
    /\ ~localSeq[last.p].mode
    /\ localSeq[last.p].index = -1
    /\ dbProcess[last.p] = [sequence_mode |-> FALSE, current_sequence_index |-> -1]
    /\ \E k \in KeysOf(last.p) : k \in DOMAIN timersRef /\ ~timersRef[k].running


(***************************************************************************)
(* C18  advance on a process whose sequence mode is off, or that has no    *)
(* subprocess, fails and changes nothing: the timer table, the loops, the  *)
(* readings produced and queued, the in-memory sequence state and the      *)
(* persisted one (and the writes queued for it) are the same afterwards.   *)
(***************************************************************************)
C18_AdvanceRefused ==
    [][(last'.op = "advance" /\ (~localSeq[last'.p].mode \/ SeqLen(last'.p) = 0))
       => /\ ~last'.ok
          /\ last'.ret = <<>>
          /\ UNCHANGED <<timersRef, intervalRefs, intervals, process, localSeq,
                         pendingSaves, pendingUpdates, dbProcess, saveCalls, produced>>
      ]_vars

\* refused with sequence mode off while a timer of the process is Running
C18_Witness ==
    /\ last.op = "advance"
    /\ ~last.ok
    /\ ~localSeq[last.p].mode
    /\ SeqLen(last.p) = 2
    /\ \E k \in KeysOf(last.p) : isTimerRunning(Eng, k)
    /\ pendingUpdates = <<>>


(***************************************************************************)
(* C19  enable on a process without subprocesses gives sequence mode on    *)
(* with currentIndex = -1, in memory and in what is handed to the          *)
(* database, and starts no timer; every advance in that state fails.       *)
(***************************************************************************)
C19_EnableWithoutSteps ==
    [][/\ (last'.op = "enable" /\ SeqLen(last'.p) = 0)
          => /\ localSeq'[last'.p] = [mode |-> TRUE, index |-> -1]
             /\ Requested(last'.p, [sequence_mode |-> TRUE, current_sequence_index |-> -1])
             /\ UNCHANGED <<timersRef, intervalRefs, intervals>>
       /\ Persisted([sequence_mode |-> TRUE, current_sequence_index |-> -1])
       /\ (last'.op = "advance" /\ localSeq[last'.p].mode /\ SeqLen(last'.p) = 0)
          => /\ ~last'.ok
             /\ UNCHANGED <<timersRef, intervalRefs, intervals, process, localSeq>>
      ]_vars

C19_Witness ==
    /\ last.op = "advance"
    /\ ~last.ok
    /\ SeqLen(last.p) = 0
    /\ localSeq[last.p] = [mode |-> TRUE, index |-> -1]
    /\ process[last.p].current_sequence_index = -1
    /\ dbProcess[last.p] = [sequence_mode |-> TRUE, current_sequence_index |-> -1]

(***************************************************************************)
(* C20  Every advance that goes through, made at currentIndex = i on a     *)
(* process of N steps, produces at most one reading (queued for saving),   *)
(* hands current_sequence_index = (i+1) mod N to the database, calls       *)
(* startTimer for step (i+1) mod N and for no other (no other timer is     *)
(* created or set Running), and leaves no other timer of the process       *)
(* Running.                                                                *)
(***************************************************************************)
C20_AdvanceEffects ==
    [][(last'.op = "advance" /\ last'.ok)
       => LET p == last'.p
              N == SeqLen(p)
              i == last'.idx
              j == (i + 1) % N
              others == KeysOf(p) \ {KeyAt(p, j)}
          IN  /\ localSeq[p].index \in 0..(N - 1) => i = localSeq[p].index
              /\ Len(last'.ret) <= 1
              /\ produced' = produced + Len(last'.ret)
              /\ Len(pendingSaves') = Len(pendingSaves) + Len(last'.ret)
              /\ Requested(p, [current_sequence_index |-> j])
              /\ last'.next = j
              /\ last'.started
                 => KeyAt(p, j) \in DOMAIN timersRef' /\ timersRef'[KeyAt(p, j)].running
              /\ \A k \in others : k \notin DOMAIN timersRef' \/ ~timersRef'[k].running
              /\ \A k \in others : k \in DOMAIN timersRef' => k \in DOMAIN timersRef
              /\ \A k \in DOMAIN timersRef \ KeysOf(p) :
                    k \in DOMAIN timersRef' /\ timersRef'[k] = timersRef[k]
      ]_vars

\* an advance from step 0 of three that captured a reading and started step 1,
\* with the timer of step 2 present and not Running
C20_Witness ==
    /\ last.op = "advance"
    /\ last.ok
    /\ SeqLen(last.p) = 3
    /\ last.idx = 0
    /\ Len(last.ret) = 1
    /\ last.started
    /\ KeyAt(last.p, 2) \in DOMAIN timersRef
    /\ ~timersRef[KeyAt(last.p, 2)].running
    /\ isTimerRunning(Eng, KeyAt(last.p, 1))

(***************************************************************************)
(* C21. When the start of the next step's timer fails during an advance    *)
(* (setup mode engaged, or that timer already Running), the failure is     *)
(* reported and nothing is rolled back: the reading captured for the       *)
(* current step is still handed to the save, the index shown is            *)
(* (i+1) mod N, and that index is written to the process in memory and     *)
(* handed to the database write.                                           *)
(***************************************************************************)
C21_StartFailureKeepsAdvance ==
    [][\A p \in Procs :
          (last'.op = "advance" /\ last'.p = p /\ last'.ok /\ ~last'.started) =>
             LET N == SeqLen(p)
                 j == (last'.idx + 1) % N
             IN  /\ last'.next = j
                 /\ localSeq'[p].index = j
                 /\ SeqLen(p)' = N
                 /\ Requested(p, [current_sequence_index |-> j])
                 /\ Len(pendingSaves') = Len(pendingSaves) + Len(last'.ret)
                 /\ produced' = produced + Len(last'.ret)
                 /\ last'.before = "running" => Len(last'.ret) = 1
                 /\ last'.ret # <<>> =>
                       /\ pendingSaves'[Len(pendingSaves')].key = KeyAt(p, last'.idx)
                       /\ pendingSaves'[Len(pendingSaves')].data = last'.ret[1]
                       /\ ~isTimerRunning(Eng', KeyAt(p, last'.idx))]_vars

\* an advance has captured the Running current step and then failed to start the
\* next step, whose timer was already Running; the index moved on all the same
C21_Witness ==
    /\ last.op = "advance" /\ last.ok /\ ~last.started
    /\ ~setupMode
    /\ last.before = "running" /\ Len(last.ret) = 1
    /\ Len(pendingSaves) = 1
    /\ localSeq[last.p].index = last.next
    /\ last.next # last.idx
    /\ isTimerRunning(Eng, KeyAt(last.p, last.next))

\* the same failure with setup mode engaged
C21_WitnessSetup ==
    /\ last.op = "advance" /\ last.ok /\ ~last.started
    /\ setupMode
    /\ localSeq[last.p].index = last.next
    /\ last.next # last.idx
(***************************************************************************)
(* C24. A persistence failure that follows an advance, be it the save of   *)
(* the captured reading or the write of the index, leaves the timer table  *)
(* as it is: right after the failure the step the advance left is still    *)
(* not Running and the step it started is still Running, and no entry,     *)
(* registered loop or live loop has changed. (With a single step the step  *)
(* left and the step started are the same timer, which is Running.)        *)
(***************************************************************************)
C24_FailureKeepsTimers ==
    [][(last'.op \in {"save", "update"} /\ ~last'.ok) =>
          /\ UNCHANGED <<timersRef, intervalRefs, intervals>>
          /\ (last.op = "advance" /\ last.ok) =>
                /\ last.idx # last.next => ~isTimerRunning(Eng', KeyAt(last.p, last.idx))
                /\ last.started => isTimerRunning(Eng', KeyAt(last.p, last.next))]_vars

\* the database has just rejected the index written by an advance that stopped the
\* Running current step and started the next one; the processes were loaded again
\* and the two timers are as the advance left them
C24_Witness ==
    /\ last.op = "update" /\ ~last.ok
    /\ DOMAIN last.ret[1] = {"current_sequence_index"}
    /\ SeqLen(last.p) = 2
    /\ LET j == last.ret[1].current_sequence_index
           i == 1 - j
       IN  /\ isTimerRunning(Eng, KeyAt(last.p, j))
           /\ isTimerPaused(Eng, KeyAt(last.p, i))
           /\ produced >= 1
           /\ process[last.p].current_sequence_index = i

\* the save of the reading captured by an advance has just been rejected
C24_WitnessSave ==
    /\ last.op = "save" /\ ~last.ok
    /\ localSeq[last.p].mode
    /\ isTimerPaused(Eng, last.key)
    /\ \E k \in KeysOf(last.p) : k # last.key /\ isTimerRunning(Eng, k)
(***************************************************************************)
(* C25. While sequence mode is enabled for a process, at most one of its   *)
(* timers is Running, in every reachable state.                            *)
(***************************************************************************)
C25_OneRunningInSequence ==
    \A p \in Procs :
        localSeq[p].mode => Cardinality({k \in KeysOf(p) : isTimerRunning(Eng, k)}) <= 1
(***************************************************************************)
(* C26. Timer-table invariant: in every reachable state a key is absent,   *)
(* Running or Paused; an entry of the table is reported by exactly one of  *)
(* isTimerRunning and isTimerPaused, an absent key by neither; and a       *)
(* refresh loop is registered for a key exactly when its timer is Running. *)
(***************************************************************************)
C26_TimerTable ==
    \A k \in Keys \cup DOMAIN timersRef \cup DOMAIN intervalRefs :
        /\ k \in DOMAIN timersRef => (isTimerRunning(Eng, k) # isTimerPaused(Eng, k))
        /\ k \notin DOMAIN timersRef => (~isTimerRunning(Eng, k) /\ ~isTimerPaused(Eng, k))
        /\ k \in DOMAIN intervalRefs <=> isTimerRunning(Eng, k)
(***************************************************************************)
(* C27. Timers are independent: a start, pause, lap or reset of key k      *)
(* leaves the entry of every other key (state, startTime, elapsed          *)
(* snapshot, laps, lastRecordedTime), its registered loop and its live     *)
(* loops unchanged.                                                        *)
(***************************************************************************)
C27_TimersIndependent ==
    [][last'.op \in {"start", "pause", "lap", "reset"} =>
          \A k \in (Keys \cup DOMAIN timersRef \cup DOMAIN timersRef'
                        \cup DOMAIN intervalRefs \cup DOMAIN intervalRefs') \ {last'.key} :
              /\ k \in DOMAIN timersRef' <=> k \in DOMAIN timersRef
              /\ k \in DOMAIN timersRef => timersRef'[k] = timersRef[k]
              /\ k \in DOMAIN intervalRefs' <=> k \in DOMAIN intervalRefs
              /\ k \in DOMAIN intervalRefs => intervalRefs'[k] = intervalRefs[k]
              /\ LoopsOf(k)' = LoopsOf(k)]_vars

\* a timer has just been paused, lapped or reset while another one is Running with
\* a lap on record and its loop alive
C27_Witness ==
    /\ last.op \in {"pause", "lap", "reset"}
    /\ last.before = "running"
    /\ \E k \in DOMAIN timersRef :
          /\ k # last.key
          /\ timersRef[k].running
          /\ Len(timersRef[k].laps) = 1
          /\ k \in DOMAIN intervalRefs
          /\ <<intervalRefs[k], k>> \in intervals

(***************************************************************************)
(* C28. laps is append-only while a timer exists: only a successful lap    *)
(* changes it, by appending one entry at the end whose lapNumber is the    *)
(* previous length plus one; every other step (start, resume, pause,       *)
(* refresh tick) leaves the laps of a timer that stays in the table as     *)
(* they were.                                                              *)
(***************************************************************************)
C28_LapsAppendOnly ==
    [][\A k \in DOMAIN timersRef \cap DOMAIN timersRef' :
          LET laps == timersRef[k].laps
              lapped == last'.op = "lap" /\ last'.key = k /\ last'.ok
          IN  /\ lapped => /\ timersRef'[k].laps = Append(laps, last'.ret[1])
                           /\ last'.ret[1].lapNumber = Len(laps) + 1
              /\ ~lapped => timersRef'[k].laps = laps]_vars

\* the second lap of a timer, one clock step after the first, which is kept as it was
C28_Witness ==
    /\ last.op = "lap" /\ last.ok
    /\ LET laps == timersRef[last.key].laps
       IN  /\ Len(laps) = 2
           /\ laps[1].lapNumber = 1
           /\ laps[2].lapNumber = 2
           /\ laps[2] = last.ret[1]
           /\ laps[1].timeMilliseconds = 2 * ClockStep
           /\ laps[2].timeMilliseconds = ClockStep

(***************************************************************************)
(* C29. The display of a Running timer is the formatting of now minus      *)
(* startTime, which is the time the timer has run by the wall clock, no    *)
(* matter how many refresh ticks have fired or were skipped.               *)
(***************************************************************************)
C29_DisplayFromWallClock ==
    \A k \in DOMAIN timersRef :
        timersRef[k].running =>
            /\ getTimerDisplay(Eng, now, k) = formatTime(now - timersRef[k].startTime)
            /\ getTimerDisplay(Eng, now, k) = formatTime(ranMs[k])

\* a Running timer two clock steps old whose elapsed snapshot was never refreshed
C29_Witness ==
    \E k \in DOMAIN timersRef :
        /\ timersRef[k].running
        /\ now - timersRef[k].startTime = 2 * ClockStep
        /\ timersRef[k].elapsedTime = 0
        /\ getTimerDisplay(Eng, now, k) = "00:00:00.01"
C22_SequenceState ==
    \A p \in Procs :
        /\ (localSeq[p].mode /\ SeqLen(p) >= 1) =>
              (0 <= localSeq[p].index /\ localSeq[p].index < SeqLen(p))
        /\ SeqLen(p) = 0 => localSeq[p].index = -1

\* the part of C22 about a process that has subprocesses
C22_IndexInRange ==
    \A p \in Procs :
        (localSeq[p].mode /\ SeqLen(p) >= 1) =>
            (0 <= localSeq[p].index /\ localSeq[p].index < SeqLen(p))

(***************************************************************************)
(* C23. Self-healing: when the stored current_sequence_index is out of     *)
(* range for the subprocess list (negative, or >= N after subprocesses     *)
(* were deleted) while sequence mode is enabled and N >= 1, the card       *)
(* already shows step 0 as the current one, and an advance does not fail:  *)
(* it takes index 0 as the current step, captures a reading from           *)
(* subprocesses[0] exactly if its timer is Running, and moves to index     *)
(* 1 mod N.                                                                *)
(***************************************************************************)
C23_SelfHealing ==
    [][\A p \in Procs :
          LET N == SeqLen(p)
              stored == process[p].current_sequence_index
          IN  (/\ localSeq[p].mode
               /\ N >= 1
               /\ (stored < 0 \/ stored >= N)) =>
                 /\ localSeq[p].index = 0
                 /\ (last'.op = "advance" /\ last'.p = p) =>
                       /\ last'.ok
                       /\ last'.idx = 0
                       /\ last'.key = KeyAt(p, 0)
                       /\ Len(last'.ret) = (IF isTimerRunning(Eng, KeyAt(p, 0)) THEN 1 ELSE 0)
                       /\ last'.next = 1 % N
                       /\ localSeq'[p].index = 1 % N
                       /\ process'[p].current_sequence_index = 1 % N]_vars

\* an advance has just captured the first of two steps and moved to the second
\* while the index in the database, written before a subprocess was deleted, is 2
C23_Witness ==
    /\ last.op = "advance" /\ last.ok
    /\ SeqLen(last.p) = 2
    /\ dbProcess[last.p].current_sequence_index = 2
    /\ dbProcess[last.p].sequence_mode
    /\ last.idx = 0 /\ last.next = 1
    /\ Len(last.ret) = 1
    /\ localSeq[last.p].index = 1
    /\ pendingUpdates # <<>>

\* the same with a negative stored index: sequence mode was enabled on a process
\* without subprocesses, and then a subprocess was added
C23_WitnessNegative ==
    /\ last.op = "advance" /\ last.ok
    /\ SeqLen(last.p) = 1
    /\ dbProcess[last.p].current_sequence_index = -1
    /\ dbProcess[last.p].sequence_mode
    /\ last.idx = 0 /\ last.next = 0
    /\ pendingUpdates # <<>>
(***************************************************************************)
(* C31. Formatting truncates and never rounds: the centiseconds shown are  *)
(* floor((ms mod 1000) / 10), the seconds floor((ms mod 60000) / 1000),    *)
(* the minutes floor((ms mod 3600000) / 60000) and the hours               *)
(* floor(ms / 3600000), for the display of every Running timer and the     *)
(* formatted time of every reading a pause returns.  floor(x / d) is the   *)
(* one q with q * d <= x < (q + 1) * d.                                    *)
(***************************************************************************)
FloorDiv(x, d, max) == CHOOSE q \in 0..max : q * d <= x /\ x < (q + 1) * d

Truncated(ms) ==
    Pad2(FloorDiv(ms, 3600000, MaxHours + 1)) \o ":"
        \o Pad2(FloorDiv(ms % 3600000, 60000, 59)) \o ":"
        \o Pad2(FloorDiv(ms % 60000, 1000, 59)) \o "."
        \o Pad2(FloorDiv(ms % 1000, 10, 99))

C31_FormatTruncates ==
    /\ \A k \in DOMAIN timersRef :
          /\ timersRef[k].running =>
                getTimerDisplay(Eng, now, k) = Truncated(now - timersRef[k].startTime)
          /\ ~timersRef[k].running =>
                getTimerDisplay(Eng, now, k) = Truncated(timersRef[k].elapsedTime)
    /\ (last.op = "pause" /\ last.ok) =>
          last.ret[1].formattedTime = Truncated(last.ret[1].timeMilliseconds)

\* a timer paused after 1999 ms shows and returns 00:00:01.99
C31_Witness ==
    /\ last.op = "pause" /\ last.ok
    /\ last.ret[1].timeMilliseconds = 1999
    /\ last.ret[1].formattedTime = "00:00:01.99"
    /\ getTimerDisplay(Eng, now, last.key) = "00:00:01.99"

\* a timer that ran 59 min 59 s 995 ms shows 00:59:59.99, no field carried
C31_WitnessCarry ==
    \E k \in DOMAIN timersRef :
        /\ timersRef[k].running
        /\ now - timersRef[k].startTime = 3599995
        /\ getTimerDisplay(Eng, now, k) = "00:59:59.99"
(***************************************************************************)
(* C32, as stated: the display of a key with no timer in the table is      *)
(* "00:00:00".                                                             *)
(***************************************************************************)
C32_AbsentDisplayShort ==
    \A k \in Keys \ DOMAIN timersRef : getTimerDisplay(Eng, now, k) = "00:00:00"

(***************************************************************************)
(* C32, amended: the display of a key with no timer in the table is the    *)
(* zero value in the format of every other display, "00:00:00.00", which   *)
(* is what formatTime gives for 0 ms.                                      *)
(***************************************************************************)
C32_AbsentDisplayZero ==
    \A k \in Keys \ DOMAIN timersRef :
        /\ getTimerDisplay(Eng, now, k) = "00:00:00.00"
        /\ getTimerDisplay(Eng, now, k) = formatTime(0)

\* a timer that ran for two clock steps has just been reset: its key is absent
C32_Witness ==
    /\ last.op = "reset" /\ last.before = "running"
    /\ last.key \in Keys \ DOMAIN timersRef
    /\ now = Epoch + 2 * ClockStep
    /\ getTimerDisplay(Eng, now, last.key) = "00:00:00.00"
(***************************************************************************)
(* C33. Every reading an advance captures for a step measures only the     *)
(* current visit to the step: its milliseconds are the wall-clock time     *)
(* between the most recent moment the step's timer was started, by an      *)
(* advance or by a manual Start from absent, and the capturing advance;    *)
(* also after a wraparound, and with a single step.                        *)
(***************************************************************************)
C33_ReadingMeasuresVisit ==
    [][\A p \in Procs :
          (/\ last'.op = "advance" /\ last'.p = p
           /\ last'.ret # <<>>
           /\ streak # <<>>
           /\ streak[Len(streak)].p = p
           /\ streak[Len(streak)].started
           /\ streak[Len(streak)].next = last'.idx) =>
              last'.ret[1].timeMilliseconds = now - streak[Len(streak)].at]_vars
(***************************************************************************)
(* C34. Double-tap safety: when an advance on a process is followed by a   *)
(* second advance that sees the index i the first one saw, for any N >= 1, *)
(* the two produce at most one reading for step i, and the index ends at   *)
(* (i+1) mod N as after a single advance.                                  *)
(***************************************************************************)
C34_DoubleTap ==
    [][\A p \in Procs :
          (/\ last'.op = "advance" /\ last'.p = p /\ last'.ok
           /\ streak # <<>>
           /\ streak[Len(streak)].p = p
           /\ streak[Len(streak)].idx = last'.idx) =>
              /\ streak[Len(streak)].readings + Len(last'.ret) <= 1
              /\ localSeq'[p].index = (last'.idx + 1) % SeqLen(p)]_vars
(***************************************************************************)
(* C35. After every advance that started the next step's timer, the index  *)
(* in memory is the index of the subprocess whose timer is Running: right  *)
(* after the advance, and still after the save of its reading and the      *)
(* write of its index have been attempted, whether they failed or not.     *)
(***************************************************************************)
C35_IndexFollowsRunning ==
    [][\A p \in Procs :
          /\ (last'.op = "advance" /\ last'.p = p /\ last'.ok /\ last'.started) =>
                /\ localSeq'[p].index = last'.next
                /\ isTimerRunning(Eng', KeyAt(p, last'.next))
          /\ (/\ last'.op \in {"save", "update"}
              /\ streak # <<>>
              /\ streak[Len(streak)].p = p
              /\ streak[Len(streak)].started) =>
                /\ localSeq'[p].index = streak[Len(streak)].next
                /\ isTimerRunning(Eng', KeyAt(p, streak[Len(streak)].next))]_vars
(***************************************************************************)
(* C36. A refresh tick, however it is interleaved with start, pause, lap,  *)
(* reset and the setup-mode cleanup, changes nothing but the elapsed       *)
(* snapshot of a Running timer, which becomes now minus startTime: it      *)
(* creates no entry, removes none, leaves every timer that is not Running  *)
(* as it is, and leaves running, startTime, laps, lastRecordedTime and the *)
(* registered loops alone.                                                 *)
(***************************************************************************)
C36_TickOnlyRefreshes ==
    [][last'.op = "tick" =>
          /\ DOMAIN timersRef' = DOMAIN timersRef
          /\ intervalRefs' = intervalRefs
          /\ \A k \in DOMAIN timersRef :
                \/ timersRef'[k] = timersRef[k]
                \/ /\ k = last'.key
                   /\ timersRef[k].running
                   /\ timersRef'[k] = [timersRef[k] EXCEPT
                                          !.elapsedTime = now - timersRef[k].startTime]]_vars

\* a tick has just refreshed the snapshot of a Running timer to one clock step,
\* its second refresh, while the other key's timer is Paused with a frozen snapshot
C36_Witness ==
    /\ last.op = "tick"
    /\ last.key \in DOMAIN timersRef
    /\ timersRef[last.key].running
    /\ timersRef[last.key].elapsedTime = ClockStep
    /\ \E k \in DOMAIN timersRef :
          /\ k # last.key
          /\ isTimerPaused(Eng, k)
          /\ timersRef[k].elapsedTime = ClockStep

\* every live loop is the registered loop of its key
C36_NoStaleLoop ==
    \A x \in intervals : x[2] \in DOMAIN intervalRefs /\ intervalRefs[x[2]] = x[1]
\* C37: deleting one process leaves every timer of every other process as it
\* was: the entry in the timer table, whether Running or Paused, its registered
\* refresh loop and its live loops are the same before and after the deletion.
C37_DeleteKeepsOtherTimers ==
    [][last'.op = "deleteProcess" =>
          \A k \in DOMAIN timersRef :
             k[1] # last'.p =>
                /\ k \in DOMAIN timersRef'
                /\ timersRef'[k] = timersRef[k]
                /\ (k \in DOMAIN intervalRefs) = (k \in DOMAIN intervalRefs')
                /\ LoopsOf(k)' = LoopsOf(k)]_vars

\* C38: after a subprocess is deleted the timer table holds no entry, no
\* registered loop and no live loop for its key, whether its timer was Running
\* or Paused before; every key of the table refers to an existing subprocess.
C38_NoTimerOfDeleted ==
    /\ last.op = "delete" /\ last.ok =>
          /\ last.key \notin DOMAIN timersRef
          /\ last.key \notin DOMAIN intervalRefs
          /\ LoopsOf(last.key) = {}
    /\ DOMAIN timersRef \subseteq Keys
    /\ DOMAIN intervalRefs \subseteq Keys
    /\ \A x \in intervals : x[2] \in Keys

\* C39: a manual start, pause, lap or reset on any subprocess, successful or
\* not, leaves the sequence state of every process as it was: the card's mode and
\* index, the mode and index of the process in memory, the persisted row, and
\* the writes still queued for it.
C39_ManualKeepsSequence ==
    [][last'.op \in {"start", "pause", "lap", "reset"} =>
          /\ localSeq' = localSeq
          /\ \A p \in Procs :
                /\ process'[p].sequence_mode = process[p].sequence_mode
                /\ process'[p].current_sequence_index = process[p].current_sequence_index
          /\ dbProcess' = dbProcess
          /\ pendingUpdates' = pendingUpdates]_vars

\* a lap has just been recorded on step 0 of a two-step process whose enabled
\* sequence stands at step 1, in memory and in the persisted row, with the
\* timer of step 1 Running
C39_Witness ==
    /\ last.op = "lap" /\ last.ok
    /\ SeqLen(last.p) = 2
    /\ last.key = KeyAt(last.p, 0)
    /\ localSeq[last.p] = [mode |-> TRUE, index |-> 1]
    /\ process[last.p].sequence_mode /\ process[last.p].current_sequence_index = 1
    /\ dbProcess[last.p] = [sequence_mode |-> TRUE, current_sequence_index |-> 1]
    /\ isTimerRunning(Eng, KeyAt(last.p, 1))

\* a start has just been pressed on the step that is not the current one of an
\* enabled sequence
C39_WitnessStart ==
    /\ last.op = "start" /\ last.ok
    /\ SeqLen(last.p) = 2
    /\ localSeq[last.p].mode
    /\ localSeq[last.p].index \in {0, 1}
    /\ last.key # KeyAt(last.p, localSeq[last.p].index)

====
